---------------------------- MODULE Spec2Model ----------------------------
(***************************************************************************)
(* Currency Tracker: the exchange-rate pipeline of myapp.py and            *)
(* utils/currencies_api.py.                                                *)
(*                                                                         *)
(*   get_currencies   (utils/currencies_api.py)  the Feed Client           *)
(*   logger / inner   (utils/currencies_api.py)  the instrumentation       *)
(*   _handle_currencies, do_GET (myapp.py)       the refresh and the router*)
(*   Currency.value setter (models/currency.py)  the validated rate        *)
(*                                                                         *)
(*   Currency and its setters (models/currency.py)  the validated record   *)
(*   _handle_user_detail (myapp.py)              the page of one user      *)
(*                                                                         *)
(* Rates are counted in hundredths of a rouble (90.50 is 9050), so that    *)
(* the arithmetic of the refresh stays inside the integers.                *)
(***************************************************************************)
EXTENDS Integers, Sequences, FiniteSets, TLC

VARIABLES
    currencies,   \* CurrencyTrackerHandler._currencies: the RateRecord collection
    prev,         \* the collection as it was when the last request began
    path,         \* the path of the last request served by do_GET
    resp,         \* the feed's response to the get_currencies call of the last request
    req,          \* the currency_codes argument of that call
    fetch,        \* how the get_currencies call of the last request ended
    rows,         \* context["currencies"] of the last rendered rate table
    stale,        \* whether context["update_time"] carried the static-data marker
    escaped,      \* whether an exception left the last handler towards do_GET
    status,       \* the HTTP status of the last response
    phase,        \* "idle" | "input" | "returned" | "served"
    op,           \* the operation the decorator was applied to in the last call
    handle,       \* the sink the decorator was given for it
    init_args,    \* the arguments of the last Currency(...) construction
    made,         \* how that construction ended
    value_per_unit, \* the attribute value_per_unit of each record, once it is set
    query,        \* the id parameter of the last GET /user
    now,          \* what datetime.now() reads
    update_time,  \* the time in context["update_time"] of the last rendered rate table
    last_good,    \* history: the time of the last refresh that rendered fresh rates
    app_log       \* the records of the file app.log, oldest first, where SpecLog
                  \* follows them; elsewhere the records of a call are in fetch.log

vars == <<currencies, prev, path, resp, req, fetch, rows, stale, escaped, status, phase,
          op, handle, init_args, made, value_per_unit, query, now, update_time, last_good,
          app_log>>

---------------------------------------------------------------------------
(* Bounds of the model.                                                    *)

\* Calls are logged while app.log holds fewer than MaxLogLen records.
MaxLogLen == 6

\* The clock reads 0 .. MaxTime.
MaxTime == 2

\* The longest char_code string handed to the Currency constructor.
MaxCodeLen == 3

\* How many of the six seeded currencies the modelled collection holds.
NumCurrencies == 2

\* Feed values range over -1 .. MaxFeedValue (hundredths).
MaxFeedValue == 1

\* The longest currency_codes list handed to a stand-alone get_currencies call.
MaxReqLen == 2

---------------------------------------------------------------------------
(* The seeded collection, myapp.py:36-43 (names translated).               *)

SeedCurrencies ==
    << [id |-> 1, num_code |-> 840, char_code |-> "USD", name |-> "US dollar",      value |-> 9050,  nominal |-> 1],
       [id |-> 2, num_code |-> 978, char_code |-> "EUR", name |-> "Euro",           value |-> 9875,  nominal |-> 1],
       [id |-> 3, num_code |-> 826, char_code |-> "GBP", name |-> "Pound sterling", value |-> 11520, nominal |-> 1],
       [id |-> 4, num_code |-> 392, char_code |-> "JPY", name |-> "Japanese yen",   value |-> 60,    nominal |-> 100],
       [id |-> 5, num_code |-> 756, char_code |-> "CHF", name |-> "Swiss franc",    value |-> 10230, nominal |-> 1],
       [id |-> 6, num_code |-> 156, char_code |-> "CNY", name |-> "Chinese yuan",   value |-> 1250,  nominal |-> 1] >>

InitialCurrencies == SubSeq(SeedCurrencies, 1, NumCurrencies)

\* The symbolic codes the feed and the callers speak about.
Codes == { InitialCurrencies[i].char_code : i \in 1..Len(InitialCurrencies) }

---------------------------------------------------------------------------
(* JSON values of a "Value" field, as response.json() yields them.         *)
(* A Python bool is kept apart from a number: True is 1 and False is 0 in  *)
(* arithmetic, and isinstance(True, int) holds. json.loads reads the token *)
(* NaN as float("nan"), a float for which every comparison is false and    *)
(* which every subtraction passes on.                                      *)

\* float("nan"): a number outside the range of the rates, compared and
\* subtracted only through the operators below.
NaN == 0 - 10^6

IsNaN(x) == x = NaN

\* Python's x <= 0, x > 0 and a - b on floats.
LeZero(x) == ~IsNaN(x) /\ x <= 0
GtZero(x) == ~IsNaN(x) /\ x > 0
Sub(a, b) == IF IsNaN(a) \/ IsNaN(b) THEN NaN ELSE a - b

JsonNumber(n) == [t |-> "number", v |-> n]
JsonTrue      == [t |-> "bool",   v |-> 1]
JsonString    == [t |-> "string", v |-> 0]

JsonValues ==
    { JsonNumber(n) : n \in -1..MaxFeedValue } \cup { JsonNumber(NaN), JsonTrue, JsonString }

\* isinstance(x, (int, float)): currencies_api.py:121 and currency.py:194.
\* bool is a subclass of int.
IsIntOrFloat(x) == x.t \in {"number", "bool"}

EmptyMap == [c \in {} |-> JsonString]

\* A feed body: unparseable, or a parsed document with or without "Valute";
\* Valute maps some of the codes to an object whose "Value" is a JSON value.
Valutes == UNION { [S -> JsonValues] : S \in SUBSET Codes }

BadBody      == [parses |-> FALSE, hasValute |-> FALSE, Valute |-> EmptyMap]
NoValuteBody == [parses |-> TRUE,  hasValute |-> FALSE, Valute |-> EmptyMap]
Document(v)  == [parses |-> TRUE,  hasValute |-> TRUE,  Valute |-> v]

Bodies == { BadBody, NoValuteBody } \cup { Document(v) : v \in Valutes }

\* What requests.get(url) meets: the connection fails, a read times out, or a
\* response with a status and a body arrives.
NetFailure(kind) == [net |-> kind, ok |-> FALSE, body |-> BadBody]
Response(ok, b)  == [net |-> "ok", ok |-> ok, body |-> b]

\* No request was made to the feed.
NoResponse == [net |-> "none", ok |-> FALSE, body |-> BadBody]

FullDocument == Document([c \in Codes |-> JsonNumber(1)])

Responses ==
    { NetFailure("ConnectionError"), NetFailure("ReadTimeout") }
    \cup { Response(TRUE, b) : b \in Bodies }
    \cup { Response(FALSE, b) : b \in { BadBody, NoValuteBody, FullDocument } }

---------------------------------------------------------------------------
(* Exceptions and log records.                                             *)

NoCode == "-"
NoExc  == [type |-> "None", msg |-> "", code |-> NoCode]
Exc(type, msg, code) == [type |-> type, msg |-> msg, code |-> code]

\* A record reaching a log store: its level, the function that emitted it,
\* what it reports ("start", "done" or "error", with the exception's type and
\* message for the wrapper's error record), the store it went to and the
\* method of the sink it went through.
Rec(level, src, what, exc, to, via) ==
    [level |-> level, src |-> src, what |-> what, type |-> exc.type, msg |-> exc.msg,
     to |-> to, via |-> via]

\* A record get_currencies writes itself through its `handle` parameter, which
\* defaults to file_log (line 92): handle.info and handle.error of app.log.
OwnRec(level, what) ==
    Rec(level, "get_currencies", what, NoExc, "app.log",
        IF level = "INFO" THEN "info" ELSE "error")

\* The outcome of a call: it returned `result`, or raised `exc`; `log` are the
\* records it appended to the sink, `requests` the network calls it issued and
\* `inspected` the requested codes its loop looked at.
Returned(result, log, n) ==
    [raised |-> FALSE, result |-> result, exc |-> NoExc, log |-> log,
     requests |-> 1, inspected |-> n]
Raised(exc, log, r, n) ==
    [raised |-> TRUE, result |-> EmptyMap, exc |-> exc, log |-> log,
     requests |-> r, inspected |-> n]

NotCalled ==
    [raised |-> FALSE, result |-> EmptyMap, exc |-> NoExc, log |-> <<>>,
     requests |-> 0, inspected |-> 0, calls |-> <<>>]

---------------------------------------------------------------------------
(* utils/currencies_api.py: get_currencies.                                *)

\* Mutant of Put: the dictionary is rebound to the one new entry instead of
\* being extended.
Put_last(m, code, x) == [c \in {code} |-> x]

\* currencies[code] = data["Valute"][code]["Value"], line 126.
Put(m, code, x) == [c \in (DOMAIN m) \cup {code} |-> IF c = code THEN x ELSE m[c]]

\* Mutant of ValidateCodes: a requested code that is absent from Valute is
\* passed over instead of raising KeyError.
RECURSIVE ValidateCodes_skip(_, _, _, _)
ValidateCodes_skip(codes, valute, i, acc) ==
    IF i > Len(codes)
    THEN [raised |-> FALSE, exc |-> NoExc, result |-> acc, inspected |-> i - 1]
    ELSE LET code == codes[i] IN
         IF code \in DOMAIN valute
         THEN IF ~IsIntOrFloat(valute[code])
              THEN [raised |-> TRUE, exc |-> Exc("TypeError", "wrong type", code),
                    result |-> EmptyMap, inspected |-> i]
              ELSE ValidateCodes_skip(codes, valute, i + 1, Put(acc, code, valute[code]))
         ELSE ValidateCodes_skip(codes, valute, i + 1, acc)

\* The loop of lines 119-130 from position i on, `acc` being the dictionary
\* `currencies` built so far. It stops at the first requested code that is
\* absent (KeyError) or whose Value is no int or float (TypeError).
RECURSIVE ValidateCodes(_, _, _, _)
ValidateCodes(codes, valute, i, acc) ==
    IF i > Len(codes)
    THEN [raised |-> FALSE, exc |-> NoExc, result |-> acc, inspected |-> i - 1]
    ELSE LET code == codes[i] IN
         IF code \in DOMAIN valute
         THEN IF ~IsIntOrFloat(valute[code])
              THEN [raised |-> TRUE, exc |-> Exc("TypeError", "wrong type", code),
                    result |-> EmptyMap, inspected |-> i]
              ELSE ValidateCodes(codes, valute, i + 1, Put(acc, code, valute[code]))
         ELSE [raised |-> TRUE, exc |-> Exc("KeyError", "currency not found", code),
               result |-> EmptyMap, inspected |-> i]

\* Mutant of get_currencies_body: a validation failure is logged and an empty
\* dictionary returned, where the code raises.
get_currencies_body_swallow(codes, r) ==
    LET start == << OwnRec("INFO", "start") >>
        err   == << OwnRec("ERROR", "error") >>
    IN  IF r.net = "ConnectionError"
        THEN Raised(Exc("ConnectionError", "network", NoCode), start \o err, 1, 0)
        ELSE IF r.net = "ReadTimeout"
        THEN Raised(Exc("ReadTimeout", "request", NoCode), start \o err, 1, 0)
        ELSE IF ~r.ok
        THEN Raised(Exc("HTTPError", "request", NoCode), start \o err, 1, 0)
        ELSE IF ~r.body.parses
        THEN Raised(Exc("JSONDecodeError", "bad json", NoCode), start \o err, 1, 0)
        ELSE IF ~r.body.hasValute
        THEN Raised(Exc("KeyError", "no Valute key", NoCode), start \o err \o err, 1, 0)
        ELSE LET v == ValidateCodes(codes, r.body.Valute, 1, EmptyMap) IN
             IF v.raised
             THEN Returned(EmptyMap, start \o err, v.inspected)
             ELSE Returned(v.result, start \o << OwnRec("INFO", "done") >>,
                           v.inspected)

\* Mutant of get_currencies_body: a document without "Valute" is read as one
\* with an empty Valute (data.get("Valute", {})), so the loop runs and the
\* first requested code is reported as not found.
get_currencies_body_get(codes, r) ==
    LET start == << OwnRec("INFO", "start") >>
        err   == << OwnRec("ERROR", "error") >>
    IN  IF r.net = "ConnectionError"
        THEN Raised(Exc("ConnectionError", "network", NoCode), start \o err, 1, 0)
        ELSE IF r.net = "ReadTimeout"
        THEN Raised(Exc("ReadTimeout", "request", NoCode), start \o err, 1, 0)
        ELSE IF ~r.ok
        THEN Raised(Exc("HTTPError", "request", NoCode), start \o err, 1, 0)
        ELSE IF ~r.body.parses
        THEN Raised(Exc("JSONDecodeError", "bad json", NoCode), start \o err, 1, 0)
        ELSE LET v == ValidateCodes(codes, r.body.Valute, 1, EmptyMap) IN
             IF v.raised
             THEN Raised(v.exc, start \o err \o err, 1, v.inspected)
             ELSE Returned(v.result, start \o << OwnRec("INFO", "done") >>,
                           v.inspected)

\* Mutant of get_currencies_body: a request that fails in transport or with
\* a bad status is sent a second time before the failure is raised.
get_currencies_body_retry(codes, r) ==
    LET start == << OwnRec("INFO", "start") >>
        err   == << OwnRec("ERROR", "error") >>
    IN  IF r.net = "ConnectionError"
        THEN Raised(Exc("ConnectionError", "network", NoCode), start \o err, 2, 0)
        ELSE IF r.net = "ReadTimeout"
        THEN Raised(Exc("ReadTimeout", "request", NoCode), start \o err, 2, 0)
        ELSE IF ~r.ok
        THEN Raised(Exc("HTTPError", "request", NoCode), start \o err, 2, 0)
        ELSE IF ~r.body.parses
        THEN Raised(Exc("JSONDecodeError", "bad json", NoCode), start \o err, 1, 0)
        ELSE IF ~r.body.hasValute
        THEN Raised(Exc("KeyError", "no Valute key", NoCode), start \o err \o err, 1, 0)
        ELSE LET v == ValidateCodes(codes, r.body.Valute, 1, EmptyMap) IN
             IF v.raised
             THEN Raised(v.exc, start \o err \o err, 1, v.inspected)
             ELSE Returned(v.result, start \o << OwnRec("INFO", "done") >>,
                           v.inspected)

\* Mutant of get_currencies_body: the body is parsed before the status is
\* looked at.
get_currencies_body_parse_first(codes, r) ==
    LET start == << OwnRec("INFO", "start") >>
        err   == << OwnRec("ERROR", "error") >>
    IN  IF r.net = "ConnectionError"
        THEN Raised(Exc("ConnectionError", "network", NoCode), start \o err, 1, 0)
        ELSE IF r.net = "ReadTimeout"
        THEN Raised(Exc("ReadTimeout", "request", NoCode), start \o err, 1, 0)
        ELSE IF ~r.body.parses
        THEN Raised(Exc("JSONDecodeError", "bad json", NoCode), start \o err, 1, 0)
        ELSE IF ~r.ok
        THEN Raised(Exc("HTTPError", "request", NoCode), start \o err, 1, 0)
        ELSE IF ~r.body.hasValute
        THEN Raised(Exc("KeyError", "no Valute key", NoCode), start \o err \o err, 1, 0)
        ELSE LET v == ValidateCodes(codes, r.body.Valute, 1, EmptyMap) IN
             IF v.raised
             THEN Raised(v.exc, start \o err \o err, 1, v.inspected)
             ELSE Returned(v.result, start \o << OwnRec("INFO", "done") >>,
                           v.inspected)

\* The body of get_currencies, lines 111-157, against the response r.
\* A failure raised inside the try block is logged by the except clause that
\* catches it and raised again; the validation failures are logged twice, at
\* the raise and in `except Exception`.
get_currencies_body(codes, r) ==
    LET start == << OwnRec("INFO", "start") >>
        err   == << OwnRec("ERROR", "error") >>
    IN  IF r.net = "ConnectionError"
        THEN Raised(Exc("ConnectionError", "network", NoCode), start \o err, 1, 0)
        ELSE IF r.net = "ReadTimeout"
        THEN Raised(Exc("ReadTimeout", "request", NoCode), start \o err, 1, 0)
        ELSE IF ~r.ok
        THEN Raised(Exc("HTTPError", "request", NoCode), start \o err, 1, 0)
        ELSE IF ~r.body.parses
        THEN Raised(Exc("JSONDecodeError", "bad json", NoCode), start \o err, 1, 0)
        ELSE IF ~r.body.hasValute
        THEN Raised(Exc("KeyError", "no Valute key", NoCode), start \o err \o err, 1, 0)
        ELSE LET v == ValidateCodes(codes, r.body.Valute, 1, EmptyMap) IN
             IF v.raised
             THEN Raised(v.exc, start \o err \o err, 1, v.inspected)
             ELSE Returned(v.result, start \o << OwnRec("INFO", "done") >>,
                           v.inspected)

---------------------------------------------------------------------------
(* utils/currencies_api.py: the decorator logger and the operations it     *)
(* wraps.                                                                  *)

\* A sink handed to logger(handle=...): whether it is None, which of the
\* methods info, error and write it has (the hasattr tests of lines 67, 72
\* and 78), and the store its records end in.
Handle(none, info, error, write, store) ==
    [none |-> none, info |-> info, error |-> error, write |-> write, store |-> store]

\* handle=None, the default of line 47.
NoHandle == Handle(TRUE, FALSE, FALSE, FALSE, "nowhere")

\* file_log, lines 12-44: a logging.Logger whose FileHandler appends to app.log.
FileLog == Handle(FALSE, TRUE, TRUE, FALSE, "app.log")

\* The sinks a caller may inject: every object that can take both an INFO and
\* an ERROR message through the methods it has.
InjectedSinks ==
    { h \in { Handle(FALSE, i, e, w, "sink") : i \in BOOLEAN, e \in BOOLEAN, w \in BOOLEAN } :
        (h.info \/ h.write) /\ (h.error \/ h.write) }

Handles == { NoHandle, FileLog } \cup InjectedSinks

\* Mutant of Emit: the wrapper writes to the module's file_log whatever sink
\* it was given.
Emit_file_log(h, level, what, exc) ==
    Rec(level, "inner", what, exc, "app.log",
        IF level = "INFO" THEN "info" ELSE "error")

\* The record the wrapper emits at `level`: through handle.info or handle.error
\* when the sink has it, through handle.write otherwise.
Emit(h, level, what, exc) ==
    Rec(level, "inner", what, exc, h.store,
        IF level = "INFO" THEN (IF h.info THEN "info" ELSE "write")
                          ELSE (IF h.error THEN "error" ELSE "write"))

\* An operation under the decorator: get_currencies, or any other function,
\* told by what one call of it does: the records it writes itself, and the
\* result it returns or the exception it raises.
Operation(name, raises, exc, result, own) ==
    [name |-> name, raises |-> raises, exc |-> exc, result |-> result, own |-> own]

GetCurrenciesOp == Operation("get_currencies", FALSE, NoExc, EmptyMap, <<>>)

\* `except Exception` (line 77) catches every exception but those that derive
\* from BaseException alone.
IsException(exc) == exc.type \notin {"KeyboardInterrupt", "SystemExit", "GeneratorExit"}

\* An outcome together with the argument tuples the operation was called with.
WithCalls(out, calls) ==
    [f \in (DOMAIN out) \cup {"calls"} |-> IF f = "calls" THEN calls ELSE out[f]]

\* func(*args, **kwargs), lines 71 and 84: one call of the operation, the feed
\* answering r if it asks.
Invoke(o, args, r) ==
    WithCalls(IF o.name = "get_currencies"
              THEN get_currencies_body(args, r)
              ELSE IF o.raises
                   THEN [raised |-> TRUE, result |-> EmptyMap, exc |-> o.exc, log |-> o.own,
                         requests |-> 0, inspected |-> 0]
                   ELSE [raised |-> FALSE, result |-> o.result, exc |-> NoExc, log |-> o.own,
                         requests |-> 0, inspected |-> 0],
              << args >>)

\* Mutant of inner: the failure is logged and swallowed, the wrapper returning
\* an empty result instead of raising again.
inner_swallow(h, o, args, r) ==
    LET out == Invoke(o, args, r) IN
    IF ~h.none
    THEN IF out.raised /\ IsException(out.exc)
         THEN [out EXCEPT !.raised = FALSE, !.exc = NoExc,
                          !.log = << Emit(h, "INFO", "start", NoExc) >> \o out.log \o
                                  << Emit(h, "ERROR", "error", out.exc) >>]
         ELSE [out EXCEPT !.log =
                 << Emit(h, "INFO", "start", NoExc) >> \o out.log \o
                 ( IF ~out.raised THEN << Emit(h, "INFO", "done", NoExc) >> ELSE <<>> )]
    ELSE out

\* Mutant of inner: the operation is called once for the completion record
\* and once more for the value returned.
inner_twice(h, o, args, r) ==
    LET out == Invoke(o, args, r) IN
    IF ~h.none
    THEN IF out.raised
         THEN [out EXCEPT !.log =
                 << Emit(h, "INFO", "start", NoExc) >> \o out.log \o
                 ( IF IsException(out.exc) THEN << Emit(h, "ERROR", "error", out.exc) >>
                   ELSE <<>> )]
         ELSE [out EXCEPT !.calls = out.calls \o out.calls,
                          !.requests = out.requests + out.requests,
                          !.log = << Emit(h, "INFO", "start", NoExc) >> \o out.log \o
                                  << Emit(h, "INFO", "done", NoExc) >> \o out.log]
    ELSE out

\* logger.inner, lines 63-85. With a handle it logs the start, calls the
\* operation, then logs the completion and returns the result, or logs the
\* failure and raises it again; without one it only calls.
inner(h, o, args, r) ==
    LET out == Invoke(o, args, r) IN
    IF ~h.none
    THEN [out EXCEPT !.log =
            << Emit(h, "INFO", "start", NoExc) >> \o out.log \o
            ( IF ~out.raised THEN << Emit(h, "INFO", "done", NoExc) >>
              ELSE IF IsException(out.exc) THEN << Emit(h, "ERROR", "error", out.exc) >>
              ELSE <<>> )]
    ELSE out

\* get_currencies as its callers see it: @logger(handle=file_log), line 88.
get_currencies(codes, r) == inner(FileLog, GetCurrenciesOp, codes, r)

---------------------------------------------------------------------------
(* models/currency.py: the validated rate.                                 *)

\* Currency.value setter, lines 182-198: what `currency.value = x` does.
\* It raises TypeError for a value that is no int or float, ValueError for a
\* value <= 0, and stores float(x) otherwise.
value_setter(x) ==
    IF ~IsIntOrFloat(x) THEN [raised |-> TRUE, exc |-> Exc("TypeError", "rate not a number", NoCode), value |-> 0]
    ELSE IF LeZero(x.v) THEN [raised |-> TRUE, exc |-> Exc("ValueError", "rate not positive", NoCode), value |-> 0]
    ELSE [raised |-> FALSE, exc |-> NoExc, value |-> x.v]

---------------------------------------------------------------------------
(* models/currency.py: the constructor and the other setters.              *)

\* Python values handed to the constructor: an int, a float, or a str as the
\* sequence of its characters.
PyInt(n)   == [t |-> "int",   v |-> n, s |-> <<>>]
PyFloat(n) == [t |-> "float", v |-> n, s |-> <<>>]
PyStr(s)   == [t |-> "str",   v |-> 0, s |-> s]

\* isinstance(x, int) and isinstance(x, str).
IsInt(x) == x.t \in {"int", "bool"}
IsStr(x) == x.t = "str"

\* The characters strings are made of: an upper-case letter, a lower-case
\* letter, a digit, a punctuation mark and a blank.
Chars == { "U", "s", "1", "$", " " }

Strings(n) == UNION { [1..k -> Chars] : k \in 0..n }

\* str.strip() and str.upper().
RECURSIVE lstrip(_)
lstrip(s) == IF s = <<>> THEN s ELSE IF s[1] = " " THEN lstrip(Tail(s)) ELSE s

RECURSIVE rstrip(_)
rstrip(s) ==
    IF s = <<>> THEN s
    ELSE IF s[Len(s)] = " " THEN rstrip(SubSeq(s, 1, Len(s) - 1)) ELSE s

strip(s) == rstrip(lstrip(s))

upper(s) == [i \in 1..Len(s) |-> IF s[i] = "s" THEN "S" ELSE s[i]]

\* What a setter does: it raises, or stores `val`.
Rejected(type, msg) == [raised |-> TRUE, exc |-> Exc(type, msg, NoCode), val |-> 0, str |-> <<>>]
Stored(val, str)    == [raised |-> FALSE, exc |-> NoExc, val |-> val, str |-> str]

\* Currency.id setter, lines 68-84.
id_setter(x) ==
    IF ~IsInt(x)     THEN Rejected("TypeError", "id not an int")
    ELSE IF x.v <= 0 THEN Rejected("ValueError", "id not positive")
    ELSE Stored(x.v, <<>>)

\* Currency.num_code setter, lines 96-112.
num_code_setter(x) ==
    IF ~IsInt(x)     THEN Rejected("TypeError", "num_code not an int")
    ELSE IF x.v <= 0 THEN Rejected("ValueError", "num_code not positive")
    ELSE Stored(x.v, <<>>)

\* Mutant of char_code_setter: the code is stored as it was given.
char_code_setter_raw(x) ==
    IF ~IsStr(x)                   THEN Rejected("TypeError", "char_code not a str")
    ELSE IF strip(x.s) = <<>>      THEN Rejected("ValueError", "char_code blank")
    ELSE IF Len(strip(x.s)) # 3    THEN Rejected("ValueError", "char_code not 3 characters")
    ELSE Stored(0, x.s)

\* Currency.char_code setter, lines 124-142.
char_code_setter(x) ==
    IF ~IsStr(x)                   THEN Rejected("TypeError", "char_code not a str")
    ELSE IF strip(x.s) = <<>>      THEN Rejected("ValueError", "char_code blank")
    ELSE IF Len(strip(x.s)) # 3    THEN Rejected("ValueError", "char_code not 3 characters")
    ELSE Stored(0, upper(strip(x.s)))

\* Currency.name setter, lines 154-170.
name_setter(x) ==
    IF ~IsStr(x)              THEN Rejected("TypeError", "name not a str")
    ELSE IF strip(x.s) = <<>> THEN Rejected("ValueError", "name blank")
    ELSE Stored(0, strip(x.s))

\* Mutant of nominal_setter: the sign of the nominal is not looked at.
nominal_setter_unsigned(x) ==
    IF ~IsInt(x)     THEN Rejected("TypeError", "nominal not an int")
    ELSE Stored(x.v, <<>>)

\* Currency.nominal setter, lines 210-226.
nominal_setter(x) ==
    IF ~IsInt(x)     THEN Rejected("TypeError", "nominal not an int")
    ELSE IF x.v <= 0 THEN Rejected("ValueError", "nominal not positive")
    ELSE Stored(x.v, <<>>)

\* No Currency object.
NoCurrency ==
    [id |-> 0, num_code |-> 0, char_code |-> <<>>, name |-> <<>>, value |-> 0, nominal |-> 0]

NotMade == [raised |-> FALSE, exc |-> NoExc, obj |-> NoCurrency]

\* Currency.__init__, lines 19-56: the six setters in the order of lines
\* 51-56; the first that raises ends the construction and no object is left.
Currency(currency_id, num_code, char_code, name, value, nominal) ==
    LET i == id_setter(currency_id)
        n == num_code_setter(num_code)
        c == char_code_setter(char_code)
        m == name_setter(name)
        v == value_setter(value)
        q == nominal_setter(nominal)
        Failed(e) == [raised |-> TRUE, exc |-> e, obj |-> NoCurrency]
    IN  IF i.raised THEN Failed(i.exc)
        ELSE IF n.raised THEN Failed(n.exc)
        ELSE IF c.raised THEN Failed(c.exc)
        ELSE IF m.raised THEN Failed(m.exc)
        ELSE IF v.raised THEN Failed(v.exc)
        ELSE IF q.raised THEN Failed(q.exc)
        ELSE [raised |-> FALSE, exc |-> NoExc,
              obj |-> [id |-> i.val, num_code |-> n.val, char_code |-> c.str,
                       name |-> m.str, value |-> v.value, nominal |-> q.val]]

\* Currency.get_value_per_unit, lines 228-235, in hundredths (rounded down).
get_value_per_unit(c) == IF IsNaN(c.value) THEN NaN ELSE c.value \div c.nominal

\* No construction was asked for.
NoArgs ==
    [currency_id |-> PyInt(0), num_code |-> PyInt(0), char_code |-> PyStr(<<>>),
     name |-> PyStr(<<>>), value |-> JsonString, nominal |-> PyInt(0)]

---------------------------------------------------------------------------
(* myapp.py: _handle_currencies and do_GET.                                *)

\* One entry of context["currencies"], lines 316-325 and 354-363.
Row(c, change) ==
    [id |-> c.id, num_code |-> c.num_code, char_code |-> c.char_code, name |-> c.name,
     value |-> c.value, nominal |-> c.nominal, change |-> change]

\* change = currency.value - old_value if old_value else 0, line 314.
Change(new, old) == IF old # 0 THEN Sub(new, old) ELSE 0

\* The loop of lines 307-337 from record i on: `cur` is the collection as
\* mutated so far, `out` the entries appended so far. The assignment of line
\* 312 may raise out of the loop, leaving the records before i updated.
RECURSIVE UpdateLoop(_, _, _, _)
UpdateLoop(cur, api, i, out) ==
    IF i > Len(cur)
    THEN [raised |-> FALSE, exc |-> NoExc, cur |-> cur, rows |-> out]
    ELSE LET currency == cur[i] IN
         IF currency.char_code \in DOMAIN api
         THEN LET old_value == currency.value
                  set       == value_setter(api[currency.char_code])
              IN  IF set.raised
                  THEN [raised |-> TRUE, exc |-> set.exc, cur |-> cur, rows |-> out]
                  ELSE LET updated == [currency EXCEPT !.value = set.value] IN
                       UpdateLoop([cur EXCEPT ![i] = updated], api, i + 1,
                                  Append(out, Row(updated, Change(updated.value, old_value))))
         ELSE UpdateLoop(cur, api, i + 1, Append(out, Row(currency, 0)))

\* The table of the except branch, lines 352-363: every record as it now is,
\* with change 0.
FallbackRows(cur) == [i \in 1..Len(cur) |-> Row(cur[i], 0)]

\* currency_codes = [c.char_code for c in self._currencies], line 302.
CurrencyCodes(cur) == [i \in 1..Len(cur) |-> cur[i].char_code]

\* Mutant of handle_currencies: the except branch renders the seeded
\* collection instead of the records as they now are.
handle_currencies_static(cur, r) ==
    LET f == get_currencies(CurrencyCodes(cur), r) IN
    IF f.raised
    THEN [cur |-> cur, rows |-> FallbackRows(InitialCurrencies), stale |-> TRUE,
          raised |-> FALSE, fetch |-> f]
    ELSE LET u == UpdateLoop(cur, f.result, 1, <<>>) IN
         IF u.raised
         THEN [cur |-> u.cur, rows |-> FallbackRows(InitialCurrencies), stale |-> TRUE,
               raised |-> FALSE, fetch |-> f]
         ELSE [cur |-> u.cur, rows |-> u.rows, stale |-> FALSE, raised |-> FALSE, fetch |-> f]

\* Mutant of handle_currencies: the except clause names KeyError, TypeError
\* and ValueError only, so a requests exception leaves the handler.
handle_currencies_narrow(cur, r) ==
    LET f == get_currencies(CurrencyCodes(cur), r) IN
    IF f.raised
    THEN IF f.exc.type \in {"KeyError", "TypeError", "JSONDecodeError", "ValueError"}
         THEN [cur |-> cur, rows |-> FallbackRows(cur), stale |-> TRUE, raised |-> FALSE, fetch |-> f]
         ELSE [cur |-> cur, rows |-> <<>>, stale |-> FALSE, raised |-> TRUE, fetch |-> f]
    ELSE LET u == UpdateLoop(cur, f.result, 1, <<>>) IN
         IF u.raised
         THEN [cur |-> u.cur, rows |-> FallbackRows(u.cur), stale |-> TRUE, raised |-> FALSE, fetch |-> f]
         ELSE [cur |-> u.cur, rows |-> u.rows, stale |-> FALSE, raised |-> FALSE, fetch |-> f]

\* _handle_currencies, lines 295-372, over the collection `cur` with the feed
\* answering r. Any exception of the try block (from get_currencies or from
\* the update loop) ends in the except branch, which renders the collection
\* as it then is under the static-data marker; the handler itself never raises.
handle_currencies(cur, r) ==
    LET f == get_currencies(CurrencyCodes(cur), r) IN
    IF f.raised
    THEN [cur |-> cur, rows |-> FallbackRows(cur), stale |-> TRUE, raised |-> FALSE, fetch |-> f]
    ELSE LET u == UpdateLoop(cur, f.result, 1, <<>>) IN
         IF u.raised
         THEN [cur |-> u.cur, rows |-> FallbackRows(u.cur), stale |-> TRUE, raised |-> FALSE, fetch |-> f]
         ELSE [cur |-> u.cur, rows |-> u.rows, stale |-> FALSE, raised |-> FALSE, fetch |-> f]

\* No time: no rate table was rendered, or no refresh rendered fresh rates.
NoTime == 0 - 1

\* Mutant of UpdateTime: the fallback table carries the time kept from the
\* last refresh that rendered fresh rates.
UpdateTime_retained(isStale, t, retained) == IF isStale THEN retained ELSE t

\* The time in context["update_time"]: datetime.now() formatted, at line 341
\* and, before the static-data marker, at line 367.
UpdateTime(isStale, t, retained) == t

\* The attribute value_per_unit of a record: not set, or the number set.
Unset     == [set |-> FALSE, v |-> 0]
Cached(v) == [set |-> TRUE, v |-> v]

\* _users, lines 29-34, and _user_currencies, lines 45-54.
UserIds == 1..4

UserCurrencies ==
    << [user_id |-> 1, currency_id |-> 1], [user_id |-> 1, currency_id |-> 2],
       [user_id |-> 2, currency_id |-> 2], [user_id |-> 2, currency_id |-> 3],
       [user_id |-> 3, currency_id |-> 4], [user_id |-> 4, currency_id |-> 1],
       [user_id |-> 4, currency_id |-> 2], [user_id |-> 4, currency_id |-> 5] >>

\* The id parameter of GET /user: absent or empty, text that int() rejects,
\* or the digits of a number.
NoQuery      == [kind |-> "none", v |-> 0]
TextQuery    == [kind |-> "text", v |-> 0]
IntQuery(n)  == [kind |-> "int",  v |-> n]

Queries == { NoQuery, TextQuery } \cup { IntQuery(n) : n \in 0..5 }

\* currency_ids of line 272.
CurrencyIds(user_id) ==
    { UserCurrencies[k].currency_id :
        k \in { j \in 1..Len(UserCurrencies) : UserCurrencies[j].user_id = user_id } }

\* Mutant of handle_user_detail: the attribute is set on every record.
handle_user_detail_all(cur, vpu, q) ==
    IF q.kind = "none" THEN [vpu |-> vpu, status |-> 404]
    ELSE IF q.kind = "text" THEN [vpu |-> vpu, status |-> 404]
    ELSE IF q.v \notin UserIds THEN [vpu |-> vpu, status |-> 404]
    ELSE [vpu |-> [i \in 1..Len(cur) |-> Cached(get_value_per_unit(cur[i]))],
          status |-> 200]

\* _handle_user_detail, lines 252-293: _send_error (404) for a missing id,
\* for an id that is no number and for an unknown user; otherwise every
\* record the user subscribes to gets value_per_unit (lines 276-277) and the
\* page is sent with 200.
handle_user_detail(cur, vpu, q) ==
    IF q.kind = "none" THEN [vpu |-> vpu, status |-> 404]
    ELSE IF q.kind = "text" THEN [vpu |-> vpu, status |-> 404]
    ELSE IF q.v \notin UserIds THEN [vpu |-> vpu, status |-> 404]
    ELSE [vpu |-> [i \in 1..Len(cur) |->
                      IF cur[i].id \in CurrencyIds(q.v)
                      THEN Cached(get_value_per_unit(cur[i]))
                      ELSE vpu[i]],
          status |-> 200]

\* do_GET, lines 186-209: a handler that returns has sent 200 through
\* _send_response; an exception leaving a handler is answered with 500.
StatusSent(raised) == IF raised THEN 500 ELSE 200

\* The answers of the feed a refresh is run against: the failures of the
\* network, and bodies whose Valute gives each code of the collection a
\* negative number, zero, the largest rate, NaN or a string, or leaves it out.
RefreshValues ==
    { JsonNumber(0 - 1), JsonNumber(0), JsonNumber(MaxFeedValue), JsonNumber(NaN), JsonString }

RefreshValutes == UNION { [S -> RefreshValues] : S \in SUBSET Codes }

RefreshResponses ==
    { NetFailure("ConnectionError"), NetFailure("ReadTimeout") }
    \cup { Response(TRUE, b) : b \in { BadBody, NoValuteBody } }
    \cup { Response(TRUE, Document(v)) : v \in RefreshValutes }
    \cup { Response(FALSE, b) : b \in { BadBody, NoValuteBody, FullDocument } }

\* GET /currencies against the answer r of the feed.
RefreshWith(r) ==
      \E h \in { handle_currencies(currencies, r) } :
        /\ prev' = currencies
        /\ currencies' = h.cur
        /\ path' = "/currencies"
        /\ resp' = r
        /\ req' = CurrencyCodes(currencies)
        /\ fetch' = h.fetch
        /\ rows' = h.rows
        /\ stale' = h.stale
        /\ escaped' = h.raised
        /\ status' = StatusSent(h.raised)
        /\ phase' = "served"
        /\ update_time' = UpdateTime(h.stale, now, last_good)
        /\ last_good' = IF h.stale THEN last_good ELSE now
        /\ query' = NoQuery
        /\ UNCHANGED <<app_log, op, handle, init_args, made, value_per_unit, now>>

\* GET /currencies.
HandleCurrencies == \E r \in RefreshResponses : RefreshWith(r)

\* GET / , /users and /author (lines 211-250, 374-383) render a page that
\* reads no currency; any other path is answered by _send_error, line 206.
StaticPaths == {"/", "/users", "/author"}

HandlePage ==
    \E p \in StaticPaths :
        /\ prev' = currencies
        /\ path' = p
        /\ rows' = <<>>
        /\ stale' = FALSE
        /\ escaped' = FALSE
        /\ status' = StatusSent(FALSE)
        /\ phase' = "served"
        /\ resp' = NoResponse
        /\ req' = <<>>
        /\ fetch' = NotCalled
        /\ query' = NoQuery
        /\ update_time' = NoTime
        /\ UNCHANGED <<app_log, currencies, op, handle, init_args, made, value_per_unit, now, last_good>>

HandleUnknown ==
    /\ prev' = currencies
    /\ path' = "/unknown"
    /\ rows' = <<>>
    /\ stale' = FALSE
    /\ escaped' = FALSE
    /\ status' = 404
    /\ phase' = "served"
    /\ resp' = NoResponse
    /\ req' = <<>>
    /\ fetch' = NotCalled
    /\ query' = NoQuery
    /\ update_time' = NoTime
    /\ UNCHANGED <<app_log, currencies, op, handle, init_args, made, value_per_unit, now, last_good>>

\* currency_codes lists of up to MaxReqLen codes, duplicates allowed.
ReqLists == UNION { [1..n -> Codes] : n \in 0..MaxReqLen }

\* One answer of the feed for each way a call of get_currencies can go.
WrapResponses ==
    { NetFailure("ReadTimeout"), Response(FALSE, FullDocument), Response(TRUE, BadBody),
      Response(TRUE, NoValuteBody), Response(TRUE, FullDocument),
      Response(TRUE, Document(EmptyMap)) }

\* The code lists of the calls made between requests: none, one code, or the
\* codes of the whole collection.
CallLists == { <<>>, CurrencyCodes(InitialCurrencies) } \cup { << c >> : c \in Codes }

\* A call of get_currencies from outside the request handlers (as
\* test_get_currencies, lines 195-206, makes one): it touches no record and
\* sends no response.
FetchCall ==
    \E codes \in CallLists, r \in WrapResponses :
        /\ prev' = currencies
        /\ path' = ""
        /\ resp' = r
        /\ req' = codes
        /\ fetch' = get_currencies(codes, r)
        /\ rows' = <<>>
        /\ stale' = FALSE
        /\ escaped' = FALSE
        /\ status' = 0
        /\ phase' = "returned"
        /\ query' = NoQuery
        /\ update_time' = NoTime
        /\ UNCHANGED <<app_log, currencies, op, handle, init_args, made, value_per_unit, now, last_good>>

Init ==
    /\ currencies = InitialCurrencies
    /\ prev = InitialCurrencies
    /\ path = ""
    /\ resp = NoResponse
    /\ req = <<>>
    /\ fetch = NotCalled
    /\ rows = <<>>
    /\ stale = FALSE
    /\ escaped = FALSE
    /\ status = 0
    /\ phase = "idle"
    /\ op = GetCurrenciesOp
    /\ handle = FileLog
    /\ init_args = NoArgs
    /\ made = NotMade
    /\ value_per_unit = [i \in 1..NumCurrencies |-> Unset]
    /\ query = NoQuery
    /\ now = 0
    /\ update_time = NoTime
    /\ last_good = NoTime
    /\ app_log = <<>>

Next == HandleCurrencies \/ HandlePage \/ HandleUnknown \/ FetchCall

Spec == Init /\ [][Next]_vars

---------------------------------------------------------------------------
(* Every page of the router with the clock running, against a few answers  *)
(* of the feed.                                                            *)

\* Valute with a fresh rate for every code; with a fresh rate for the first
\* record and 0 for the others.
AllFresh   == [c \in Codes |-> JsonNumber(MaxFeedValue)]
FirstFresh ==
    [c \in Codes |-> IF c = InitialCurrencies[1].char_code
                     THEN JsonNumber(MaxFeedValue) ELSE JsonNumber(0)]

PageResponses ==
    { NetFailure("ReadTimeout"), Response(FALSE, FullDocument),
      Response(TRUE, Document(AllFresh)), Response(TRUE, Document(FirstFresh)),
      Response(TRUE, Document(EmptyMap)) }

\* GET /currencies.
RefreshPage == \E r \in PageResponses : RefreshWith(r)

\* GET /user?id=...
HandleUserDetail ==
    \E q \in Queries :
      \E d \in { handle_user_detail(currencies, value_per_unit, q) } :
        /\ prev' = currencies
        /\ path' = "/user"
        /\ query' = q
        /\ value_per_unit' = d.vpu
        /\ rows' = <<>>
        /\ stale' = FALSE
        /\ escaped' = FALSE
        /\ status' = d.status
        /\ phase' = "served"
        /\ resp' = NoResponse
        /\ req' = <<>>
        /\ fetch' = NotCalled
        /\ update_time' = NoTime
        /\ UNCHANGED <<app_log, currencies, op, handle, init_args, made, now, last_good>>

\* The clock moves on between two requests.
Tick ==
    /\ now < MaxTime
    /\ now' = now + 1
    /\ UNCHANGED <<app_log, currencies, prev, path, resp, req, fetch, rows, stale, escaped,
                   status, phase, op, handle, init_args, made, value_per_unit, query,
                   update_time, last_good>>

NextPages ==
    RefreshPage \/ HandlePage \/ HandleUnknown \/ HandleUserDetail \/ FetchCall \/ Tick

SpecPages == Init /\ [][NextPages]_vars

---------------------------------------------------------------------------
(* get_currencies on its own: the inputs are drawn at the start, the call  *)
(* is the one step.                                                        *)

InitFetch ==
    /\ currencies = InitialCurrencies
    /\ prev = InitialCurrencies
    /\ path = ""
    /\ resp \in Responses
    /\ req \in ReqLists
    /\ fetch = NotCalled
    /\ rows = <<>>
    /\ stale = FALSE
    /\ escaped = FALSE
    /\ status = 0
    /\ phase = "input"
    /\ op = GetCurrenciesOp
    /\ handle = FileLog
    /\ init_args = NoArgs
    /\ made = NotMade
    /\ value_per_unit = [i \in 1..NumCurrencies |-> Unset]
    /\ query = NoQuery
    /\ now = 0
    /\ update_time = NoTime
    /\ last_good = NoTime
    /\ app_log = <<>>

CallGetCurrencies ==
    /\ phase = "input"
    /\ fetch' = get_currencies(req, resp)
    /\ phase' = "returned"
    /\ UNCHANGED <<app_log, currencies, prev, path, resp, req, rows, stale, escaped, status,
                   op, handle, init_args, made, value_per_unit, query, now, update_time,
                   last_good>>

NextFetch == CallGetCurrencies

SpecFetch == InitFetch /\ [][NextFetch]_vars

---------------------------------------------------------------------------
(* Properties of the refresh (GET /currencies), under Spec.                *)

\* The last request was a refresh.
Refreshed == phase = "served" /\ path = "/currencies"

\* The feed answered the refresh with a parsed document that has "Valute".
FeedGaveValute ==
    resp.net = "ok" /\ resp.ok /\ resp.body.parses /\ resp.body.hasValute

\* Every entry of the rendered table reports change 0 and the rate the record
\* had when the request began.
TableShowsPrev ==
    /\ Len(rows) = Len(prev)
    /\ \A i \in 1..Len(rows) :
          /\ rows[i].char_code = prev[i].char_code
          /\ rows[i].value = prev[i].value
          /\ rows[i].change = 0

\* C1: whenever get_currencies raises during a refresh, whatever the failure,
\* every record keeps the rate it had before the refresh, every reported
\* change is 0, the table carries the static-data marker and no exception
\* leaves the handler.
C1_FeedFailureFallsBack ==
    (Refreshed /\ fetch.raised) =>
        /\ currencies = prev
        /\ TableShowsPrev
        /\ stale
        /\ ~escaped

\* A refresh whose feed call timed out after an earlier refresh had changed
\* the seeded rates.
C1_Witness ==
    /\ Refreshed /\ fetch.raised /\ fetch.exc.type = "ReadTimeout"
    /\ currencies # InitialCurrencies
    /\ stale

\* C2: whenever get_currencies returns during a refresh, every record whose
\* code is in the returned mapping has the fetched value as its rate, its
\* reported change is the new rate minus the rate before the refresh, and the
\* table is not marked stale.
C2_SuccessUpdatesEveryMatched ==
    (Refreshed /\ ~fetch.raised) =>
        /\ ~stale
        /\ Len(rows) = Len(currencies)
        /\ \A i \in 1..Len(currencies) :
              currencies[i].char_code \in DOMAIN fetch.result =>
                  /\ currencies[i].value = fetch.result[currencies[i].char_code].v
                  /\ rows[i].change = Sub(currencies[i].value, prev[i].value)

\* C3: whenever the table of a refresh is marked stale, get_currencies raised
\* and every record has the rate it had before the refresh, with change 0:
\* a refresh is all or nothing.
C3_StaleMeansNothingApplied ==
    (Refreshed /\ stale) =>
        /\ fetch.raised
        /\ currencies = prev
        /\ TableShowsPrev

\* The codes of the collection that the feed's Valute leaves out.
OmittedCodes ==
    { prev[i].char_code : i \in 1..Len(prev) } \ DOMAIN resp.body.Valute

C5_FeedFailureAnswered200 ==
    (Refreshed /\ fetch.raised) =>
        /\ status = 200
        /\ Len(rows) = Len(currencies)
        /\ \A i \in 1..Len(rows) : rows[i].id = currencies[i].id

\* A refresh answered with 200 although the feed's status was no success.
C5_Witness ==
    /\ Refreshed /\ fetch.raised /\ fetch.exc.type = "HTTPError"
    /\ status = 200 /\ Len(rows) = NumCurrencies

---------------------------------------------------------------------------
(* Properties of get_currencies, under SpecFetch.                          *)

FetchReturned == phase = "returned"

Requested == { req[i] : i \in 1..Len(req) }

\* The requested code at position i is missing from Valute, or its Value is
\* no int or float for Python.
Offending(i) ==
    \/ req[i] \notin DOMAIN resp.body.Valute
    \/ ~IsIntOrFloat(resp.body.Valute[req[i]])

FirstOffending ==
    CHOOSE i \in 1..Len(req) : Offending(i) /\ \A j \in 1..(i - 1) : ~Offending(j)

\* C6: against a document whose Valute holds every requested code with a JSON
\* number as Value, get_currencies returns a mapping whose keys are exactly
\* the requested codes and whose values are the document's Values.
C6_ExactlyRequestedCodes ==
    ( /\ FetchReturned /\ FeedGaveValute
      /\ \A c \in Requested :
            c \in DOMAIN resp.body.Valute /\ resp.body.Valute[c].t = "number" ) =>
        /\ ~fetch.raised
        /\ DOMAIN fetch.result = Requested
        /\ \A c \in Requested : fetch.result[c] = resp.body.Valute[c]

\* One code requested twice against a feed that also quotes another code.
C6_Witness ==
    /\ FetchReturned /\ FeedGaveValute
    /\ Len(req) = 2 /\ req[1] = req[2]
    /\ DOMAIN resp.body.Valute = Codes
    /\ ~fetch.raised
    /\ DOMAIN fetch.result = { req[1] }

\* C7 as claimed: against a document that has Valute, if some requested code
\* is absent from Valute then get_currencies raises KeyError naming an absent
\* requested code and returns nothing.
C7_AbsentCodeRaisesKeyError ==
    (FetchReturned /\ FeedGaveValute /\ Requested \ DOMAIN resp.body.Valute # {}) =>
        /\ fetch.raised
        /\ fetch.result = EmptyMap
        /\ fetch.exc.type = "KeyError"
        /\ fetch.exc.code \in Requested \ DOMAIN resp.body.Valute

\* C7 as amended: against a document that has Valute, if some requested code
\* is absent from Valute then get_currencies returns nothing and raises for
\* the earliest requested code that is absent or has a Value that is no int
\* or float: KeyError naming it if it is absent, TypeError naming it if not.
C7_EarliestOffendingCodeRaises ==
    (FetchReturned /\ FeedGaveValute /\ Requested \ DOMAIN resp.body.Valute # {}) =>
        /\ fetch.raised
        /\ fetch.result = EmptyMap
        /\ fetch.exc.code = req[FirstOffending]
        /\ fetch.exc.type =
              IF req[FirstOffending] \in DOMAIN resp.body.Valute
              THEN "TypeError" ELSE "KeyError"

\* A valid first code followed by an absent one: KeyError names the second.
C7_Witness ==
    /\ FetchReturned /\ FeedGaveValute
    /\ Len(req) = 2
    /\ req[1] \in DOMAIN resp.body.Valute
    /\ resp.body.Valute[req[1]] = JsonNumber(1)
    /\ req[2] \notin DOMAIN resp.body.Valute
    /\ fetch.exc = Exc("KeyError", "currency not found", req[2])

\* The exception type by which a caller tells the CodeNotFound kind,
\* currencies_api.py:130.
CodeNotFoundType == "KeyError"

\* The feed's body parsed to a document without the "Valute" key.
FeedLacksValute ==
    resp.net = "ok" /\ resp.ok /\ resp.body.parses /\ ~resp.body.hasValute

\* C8 as claimed: against a parsed document without "Valute", get_currencies
\* raises a failure whose kind differs from the CodeNotFound kind, names no
\* requested code and has inspected no requested code.
C8_MissingValuteIsItsOwnKind ==
    (FetchReturned /\ FeedLacksValute) =>
        /\ fetch.raised
        /\ fetch.exc.type # CodeNotFoundType
        /\ fetch.exc.code = NoCode
        /\ fetch.inspected = 0

\* C8 as amended: against a parsed document without "Valute", get_currencies
\* raises KeyError, the exception type of CodeNotFound, told from it only by
\* its message; it names no requested code, inspects none and returns nothing.
C8_MissingValuteRaisesKeyError ==
    (FetchReturned /\ FeedLacksValute) =>
        /\ fetch.raised
        /\ fetch.result = EmptyMap
        /\ fetch.exc = Exc(CodeNotFoundType, "no Valute key", NoCode)
        /\ fetch.inspected = 0

\* Codes were requested from a document without "Valute".
C8_Witness ==
    /\ FetchReturned /\ FeedLacksValute
    /\ Len(req) = MaxReqLen
    /\ fetch.raised /\ fetch.exc.msg = "no Valute key"

\* C9: when every requested code is in Valute and the Value of one of them
\* is no JSON number, get_currencies raises TypeError naming a requested code
\* whose Value is no number, and returns nothing.
C9_NonNumericValueRaisesTypeError ==
    ( /\ FetchReturned /\ FeedGaveValute
      /\ Requested \subseteq DOMAIN resp.body.Valute
      /\ \E c \in Requested : resp.body.Valute[c].t # "number" ) =>
        /\ fetch.raised
        /\ fetch.result = EmptyMap
        /\ fetch.exc.type = "TypeError"
        /\ fetch.exc.code \in { c \in Requested : resp.body.Valute[c].t # "number" }

\* C10: every value of a mapping returned by get_currencies is positive.
C10_ReturnedRatesPositive ==
    (FetchReturned /\ ~fetch.raised) =>
        \A c \in DOMAIN fetch.result : fetch.result[c].v > 0

---------------------------------------------------------------------------
(* The decorator on its own: an operation, a sink, the arguments and the   *)
(* feed's answer are drawn at the start, the wrapped call is the one step. *)

\* Results an operation may return.
SomeResult == [c \in Codes |-> JsonNumber(1)]

\* Records an operation may write to app.log by itself.
OwnLogs == { <<>>, << Rec("ERROR", "op", "error", NoExc, "app.log", "error") >> }

\* Exceptions an operation may raise; KeyboardInterrupt is no Exception.
OpFailures ==
    { Exc("ValueError", "bad value", NoCode), Exc("KeyError", "missing", NoCode),
      Exc("KeyboardInterrupt", "", NoCode) }

Operations ==
    { GetCurrenciesOp }
    \cup { Operation("op", FALSE, NoExc, m, own) : m \in { EmptyMap, SomeResult }, own \in OwnLogs }
    \cup { Operation("op", TRUE, e, EmptyMap, own) : e \in OpFailures, own \in OwnLogs }

InitWrap ==
    /\ currencies = InitialCurrencies
    /\ prev = InitialCurrencies
    /\ path = ""
    /\ op \in Operations
    /\ handle \in Handles
    /\ resp \in IF op.name = "get_currencies" THEN WrapResponses ELSE { NoResponse }
    /\ req \in ReqLists
    /\ fetch = NotCalled
    /\ rows = <<>>
    /\ stale = FALSE
    /\ escaped = FALSE
    /\ status = 0
    /\ phase = "input"
    /\ init_args = NoArgs
    /\ made = NotMade
    /\ value_per_unit = [i \in 1..NumCurrencies |-> Unset]
    /\ query = NoQuery
    /\ now = 0
    /\ update_time = NoTime
    /\ last_good = NoTime
    /\ app_log = <<>>

CallWrapped ==
    /\ phase = "input"
    /\ fetch' = inner(handle, op, req, resp)
    /\ phase' = "returned"
    /\ UNCHANGED <<app_log, currencies, prev, path, resp, req, rows, stale, escaped, status,
                   op, handle, init_args, made, value_per_unit, query, now, update_time,
                   last_good>>

NextWrap == CallWrapped

SpecWrap == InitWrap /\ [][NextWrap]_vars

---------------------------------------------------------------------------
(* Properties of the decorator, under SpecWrap.                            *)

\* The records of the last call that the wrapper emitted, in order.
WrapperRecords == SelectSeq(fetch.log, LAMBDA x : x.src = "inner")

\* What one call of the operation does with the drawn arguments.
Operated == Invoke(op, req, resp)

\* C11: when an operation wrapped with a sink raises a failure, the wrapper
\* emits to that sink one INFO start record and then one ERROR record with
\* the failure's type and message, the start first and the error last of all
\* the call's records, and raises the same failure.
C11_FailureLoggedAndReraised ==
    (FetchReturned /\ ~handle.none /\ Operated.raised /\ IsException(Operated.exc)) =>
        /\ Len(WrapperRecords) = 2
        /\ WrapperRecords[1] = Emit(handle, "INFO", "start", NoExc)
        /\ WrapperRecords[2].level = "ERROR"
        /\ WrapperRecords[2].type = Operated.exc.type
        /\ WrapperRecords[2].msg = Operated.exc.msg
        /\ \A i \in 1..2 : WrapperRecords[i].to = handle.store
        /\ fetch.log[1].src = "inner" /\ fetch.log[Len(fetch.log)].src = "inner"
        /\ fetch.raised
        /\ fetch.exc = Operated.exc
        /\ fetch.result = EmptyMap

\* An operation that logs by itself and raises ValueError, wrapped with a
\* sink that has only write.
C11_Witness ==
    /\ FetchReturned
    /\ handle = Handle(FALSE, FALSE, FALSE, TRUE, "sink")
    /\ op.name = "op" /\ op.raises /\ op.exc.type = "ValueError" /\ op.own # <<>>
    /\ fetch.raised /\ fetch.exc.type = "ValueError"
    /\ Len(fetch.log) = 3 /\ fetch.log[3].via = "write" /\ fetch.log[3].level = "ERROR"

\* C12: when an operation wrapped with a sink returns, the wrapper emits one
\* INFO start record and then one INFO completion record and no ERROR record,
\* returns the operation's result, and has called the operation once, with
\* the arguments it was given.
C12_SuccessLoggedAndReturned ==
    (FetchReturned /\ ~handle.none /\ ~Operated.raised) =>
        /\ Len(WrapperRecords) = 2
        /\ WrapperRecords[1] = Emit(handle, "INFO", "start", NoExc)
        /\ WrapperRecords[2] = Emit(handle, "INFO", "done", NoExc)
        /\ fetch.log[1].src = "inner" /\ fetch.log[Len(fetch.log)].src = "inner"
        /\ ~fetch.raised
        /\ fetch.result = Operated.result
        /\ fetch.calls = << req >>
        /\ Len(fetch.log) = 2 + Len(Operated.log)

\* An operation that returns a result after logging an error of its own,
\* called with the longest argument tuple through a logging.Logger.
C12_Witness ==
    /\ FetchReturned
    /\ handle = FileLog
    /\ op.name = "op" /\ ~op.raises /\ op.result = SomeResult /\ op.own # <<>>
    /\ Len(req) = MaxReqLen
    /\ ~fetch.raised /\ fetch.result = SomeResult
    /\ Len(fetch.log) = 3

\* C20 as claimed: a call of an operation decorated without a sink is recorded
\* in the process-wide log app.log, start first and completion or failure
\* last; with a sink, the wrapper's records go to that sink.
C20_DefaultSinkRecordsCalls ==
    FetchReturned =>
        /\ handle.none =>
              /\ Len(WrapperRecords) = 2
              /\ \A i \in 1..Len(WrapperRecords) : WrapperRecords[i].to = "app.log"
        /\ ~handle.none =>
              /\ Len(WrapperRecords) >= 1
              /\ \A i \in 1..Len(WrapperRecords) : WrapperRecords[i].to = handle.store

\* C20 as amended: a call of an operation decorated without a sink is not
\* recorded by the wrapper at all, which only calls the operation; with a
\* sink, the wrapper's records go to that sink.
C20_NoSinkNoRecords ==
    FetchReturned =>
        /\ handle.none =>
              /\ WrapperRecords = <<>>
              /\ fetch = Operated
        /\ ~handle.none =>
              /\ Len(WrapperRecords) >= 1
              /\ \A i \in 1..Len(WrapperRecords) : WrapperRecords[i].to = handle.store

\* A failing operation decorated without a sink: the failure reaches the
\* caller and no record was written.
C20_Witness ==
    /\ FetchReturned
    /\ handle = NoHandle
    /\ op.name = "op" /\ op.raises /\ op.own = <<>>
    /\ fetch.raised /\ fetch.log = <<>>

---------------------------------------------------------------------------
(* The records across requests, under Spec.                                *)

\* C17: in every reachable state every record of the collection has a rate
\* greater than 0 and a nominal greater than 0.
C17_RatesAndNominalsPositive ==
    \A i \in 1..Len(currencies) :
        /\ GtZero(currencies[i].value)
        /\ currencies[i].nominal > 0

---------------------------------------------------------------------------
(* The records and the timestamp across all pages, under SpecPages.        *)

\* No step adds, removes or reorders a record or changes a record's id,
\* num_code, char_code, name or nominal.
MembersKept ==
    /\ Len(currencies') = Len(currencies)
    /\ \A i \in 1..Len(currencies) :
          /\ currencies'[i].id = currencies[i].id
          /\ currencies'[i].num_code = currencies[i].num_code
          /\ currencies'[i].char_code = currencies[i].char_code
          /\ currencies'[i].name = currencies[i].name
          /\ currencies'[i].nominal = currencies[i].nominal

\* A step changes a rate only if it is a refresh whose get_currencies call
\* returned, and then to the value returned for the record's code; a step
\* that is a call of get_currencies changes no record.
RateOnlyByRefresh ==
    /\ \A i \in 1..Len(currencies) :
          currencies'[i].value # currencies[i].value =>
              /\ path' = "/currencies" /\ phase' = "served"
              /\ ~fetch'.raised
              /\ currencies[i].char_code \in DOMAIN fetch'.result
              /\ currencies'[i].value = fetch'.result[currencies[i].char_code].v
    /\ (phase' = "returned") => (currencies' = currencies)

\* C18 as claimed: across page requests and get_currencies calls the
\* collection keeps its members and their order, the rate is the only thing
\* of a record that ever changes, and it changes only in a refresh after
\* get_currencies has returned.
C18_OnlyRateEverChanges ==
    [][ MembersKept /\ RateOnlyByRefresh /\ value_per_unit' = value_per_unit ]_vars

\* C18 as amended: the members, their order and their id, num_code,
\* char_code, name and nominal never change; the rate changes only in a
\* refresh after get_currencies has returned and never in a get_currencies
\* call; besides the rate, GET /user of a known user sets the attribute
\* value_per_unit of the records that user subscribes to, to the record's
\* rate per unit, and nothing else ever sets it.
C18_RecordsFrame ==
    [][ /\ MembersKept
        /\ RateOnlyByRefresh
        /\ \A i \in 1..Len(currencies) :
              value_per_unit'[i] # value_per_unit[i] =>
                  /\ path' = "/user" /\ status' = 200
                  /\ currencies' = currencies
                  /\ currencies[i].id \in CurrencyIds(query'.v)
                  /\ value_per_unit'[i] = Cached(get_value_per_unit(currencies[i]))
      ]_vars

\* After a refresh gave the first record a fresh rate, the page of a user
\* who subscribes to it was served and set its value_per_unit.
C18_Witness ==
    /\ phase = "served" /\ path = "/user" /\ status = 200
    /\ currencies[1].value = MaxFeedValue
    /\ value_per_unit[1] = Cached(MaxFeedValue)

\* C19 as claimed: a refresh that falls back, after some refresh rendered
\* fresh rates, presents the time of that last successful refresh.
C19_FallbackShowsLastGoodTime ==
    (Refreshed /\ stale /\ last_good # NoTime) => update_time = last_good

\* C19 as amended: every refresh, fallen back or not, presents the time of
\* the request itself, the fallback with the static-data marker; a fallback
\* leaves the time of the last successful refresh as it was, and shows it
\* nowhere.
C19_FallbackShowsAttemptTime ==
    [][ (now' = now /\ Refreshed') =>
            /\ update_time' = now
            /\ stale' => last_good' = last_good
            /\ ~stale' => last_good' = now
      ]_vars

\* A refresh fell back later than the last refresh that rendered fresh rates
\* and presented its own, later time.
C19_Witness ==
    /\ Refreshed /\ stale
    /\ last_good # NoTime /\ last_good < update_time

---------------------------------------------------------------------------
(* Network-layer failures of get_currencies, under SpecFetch.              *)

\* The exception response.raise_for_status() raises on a status that is not
\* a success (line 114), and the one response.json() raises on a body that
\* is not JSON (line 115).
HTTPError       == Exc("HTTPError", "request", NoCode)
JSONDecodeError == Exc("JSONDecodeError", "bad json", NoCode)

\* The exception types the clause `except requests.exceptions.RequestException`
\* stands for in the docstring (line 109), and those of `ValueError` (line 108).
RequestException == { "ConnectionError", "ReadTimeout", "HTTPError" }
ValueErrors      == { "ValueError", "JSONDecodeError" }

\* C14: a response with a status that is not a success makes get_currencies
\* raise the HTTPError of raise_for_status, a RequestException, whatever the
\* body is and before any of it is looked at; a success response whose body
\* does not parse makes it raise the JSONDecodeError of json(), a ValueError;
\* in both cases the exception that reaches the caller through the wrapper is
\* that very exception, and no result is returned.
C14_TransportBeforeParse ==
    FetchReturned =>
        /\ (resp.net = "ok" /\ ~resp.ok) =>
              /\ fetch.raised /\ fetch.exc = HTTPError
              /\ fetch.exc.type \in RequestException
              /\ fetch.inspected = 0 /\ fetch.result = EmptyMap
        /\ (resp.net = "ok" /\ resp.ok /\ ~resp.body.parses) =>
              /\ fetch.raised /\ fetch.exc = JSONDecodeError
              /\ fetch.exc.type \in ValueErrors
              /\ fetch.inspected = 0 /\ fetch.result = EmptyMap

\* A call met a bad status although the body was a complete feed document.
C14_Witness ==
    /\ FetchReturned /\ resp = Response(FALSE, FullDocument) /\ req # <<>>
    /\ fetch.raised /\ fetch.exc.type = "HTTPError"

---------------------------------------------------------------------------
(* Further properties of the requests and calls, under Spec.               *)

\* C13: every call of get_currencies, from a refresh or from elsewhere, has
\* sent exactly one request to the feed when it ends, however it ends, and a
\* refresh makes exactly one such call, with the codes of the collection.
C13_OneRequestPerCall ==
    /\ (FetchReturned \/ Refreshed) =>
          /\ fetch.requests = 1
          /\ fetch.calls = << req >>
    /\ Refreshed => req = CurrencyCodes(prev)

\* A refresh whose one request met a bad status.
C13_Witness ==
    /\ Refreshed /\ fetch.raised /\ fetch.exc.type = "HTTPError"
    /\ fetch.requests = 1

---------------------------------------------------------------------------
(* The Currency constructor on its own: the arguments are drawn at the     *)
(* start, the construction is the one step.                                *)

\* Arguments for id, num_code and nominal; for value; for char_code and name.
ArgInts  == { PyInt(n) : n \in -1..1 } \cup { PyFloat(1) }
ArgRates == { JsonNumber(n) : n \in -1..1 } \cup { JsonNumber(NaN), JsonString }
ArgCodes == { PyStr(s) : s \in Strings(MaxCodeLen) } \cup { PyInt(1) }
ArgNames == { PyStr(<<>>), PyStr(<< " " >>), PyStr(<< "U", "s" >>), PyInt(1) }

InitCurrency ==
    /\ currencies = InitialCurrencies
    /\ prev = InitialCurrencies
    /\ path = ""
    /\ resp = NoResponse
    /\ req = <<>>
    /\ fetch = NotCalled
    /\ rows = <<>>
    /\ stale = FALSE
    /\ escaped = FALSE
    /\ status = 0
    /\ phase = "input"
    /\ op = GetCurrenciesOp
    /\ handle = FileLog
    /\ init_args \in [currency_id : ArgInts, num_code : ArgInts, char_code : ArgCodes,
                      name : ArgNames, value : ArgRates, nominal : ArgInts]
    /\ made = NotMade
    /\ value_per_unit = [i \in 1..NumCurrencies |-> Unset]
    /\ query = NoQuery
    /\ now = 0
    /\ update_time = NoTime
    /\ last_good = NoTime
    /\ app_log = <<>>

Construct ==
    /\ phase = "input"
    /\ made' = Currency(init_args.currency_id, init_args.num_code, init_args.char_code, init_args.name,
                        init_args.value, init_args.nominal)
    /\ phase' = "constructed"
    /\ UNCHANGED <<app_log, currencies, prev, path, resp, req, fetch, rows, stale, escaped,
                   status, op, handle, init_args, value_per_unit, query, now, update_time,
                   last_good>>

NextCurrency == Construct

SpecCurrency == InitCurrency /\ [][NextCurrency]_vars

---------------------------------------------------------------------------
(* Properties of the constructor, under SpecCurrency.                      *)

Constructed == phase = "constructed"

\* An argument that is a number and is zero or negative.
NonPositive(x) == x.t \in {"int", "float", "number"} /\ LeZero(x.v)

\* A positive int; a positive number.
PositiveInt(x)  == IsInt(x) /\ x.v > 0
PositiveRate(x) == IsIntOrFloat(x) /\ GtZero(x.v)

IsLetter(ch)      == ch \in { "U", "s", "S" }
IsUpperLetter(ch) == ch \in { "U", "S" }

\* A string of exactly three letters.
ThreeLetters(x) == IsStr(x) /\ Len(x.s) = 3 /\ \A k \in 1..3 : IsLetter(x.s[k])

NonBlank(x) == IsStr(x) /\ strip(x.s) # <<>>

\* C15: a construction with a positive id, num_code, value and nominal, a
\* code of three letters and a name that is not blank succeeds and the object
\* holds the arguments (the code in upper case), its value per unit being
\* value / nominal; a construction in which id, num_code, value or nominal
\* is zero or negative raises and leaves no object.
C15_PositiveAcceptedNonPositiveRejected ==
    Constructed =>
        /\ ( /\ PositiveInt(init_args.currency_id) /\ PositiveInt(init_args.num_code)
             /\ PositiveRate(init_args.value) /\ PositiveInt(init_args.nominal)
             /\ ThreeLetters(init_args.char_code) /\ NonBlank(init_args.name) ) =>
              /\ ~made.raised
              /\ made.obj.id = init_args.currency_id.v
              /\ made.obj.num_code = init_args.num_code.v
              /\ made.obj.value = init_args.value.v
              /\ made.obj.nominal = init_args.nominal.v
              /\ made.obj.char_code = upper(init_args.char_code.s)
              /\ get_value_per_unit(made.obj) = init_args.value.v \div init_args.nominal.v
        /\ ( \/ NonPositive(init_args.currency_id) \/ NonPositive(init_args.num_code)
             \/ NonPositive(init_args.value) \/ NonPositive(init_args.nominal) ) =>
              /\ made.raised
              /\ made.obj = NoCurrency

\* Everything was well-formed but the nominal, which was 0.
C15_Witness ==
    /\ Constructed
    /\ PositiveInt(init_args.currency_id) /\ PositiveInt(init_args.num_code)
    /\ PositiveRate(init_args.value) /\ ThreeLetters(init_args.char_code) /\ NonBlank(init_args.name)
    /\ init_args.nominal = PyInt(0)
    /\ made.raised /\ made.exc.type = "ValueError"

\* C16: a construction with a code that is not exactly three letters raises,
\* and the code of every constructed object is three upper-case letters.
C16_NonLetterCodeRejected ==
    Constructed =>
        /\ ~ThreeLetters(init_args.char_code) => made.raised
        /\ ~made.raised =>
              /\ Len(made.obj.char_code) = 3
              /\ \A k \in 1..3 : IsUpperLetter(made.obj.char_code[k])

\* C16, as the setter has it: a construction raises for every code that is
\* no string or whose stripped form is not exactly three characters long,
\* whatever the characters are; the code of a constructed object is the
\* stripped argument in upper case, three characters of which none is a
\* lower-case letter and the first and last are no blanks.
C16_WrongLengthCodeRejected ==
    Constructed =>
        /\ (~IsStr(init_args.char_code) \/ Len(strip(init_args.char_code.s)) # 3) => made.raised
        /\ ~made.raised =>
              /\ made.obj.char_code = upper(strip(init_args.char_code.s))
              /\ Len(made.obj.char_code) = 3
              /\ \A k \in 1..3 : made.obj.char_code[k] # "s"
              /\ made.obj.char_code[1] # " " /\ made.obj.char_code[3] # " "

\* A code of a letter, a digit and a lower-case letter was accepted and
\* stored in upper case.
C16_Witness ==
    /\ Constructed
    /\ init_args.char_code = PyStr(<< "U", "1", "s" >>)
    /\ ~made.raised
    /\ made.obj.char_code = << "U", "1", "S" >>

---------------------------------------------------------------------------
(* The order of validation in get_currencies, under SpecFetch.             *)

\* The requested code at position i is missing from Valute; its Value is
\* there but is no JSON number.
Absent(i)     == req[i] \notin DOMAIN resp.body.Valute
NonNumeric(i) == ~Absent(i) /\ resp.body.Valute[req[i]].t # "number"

\* The earliest position of the request whose code is missing or non-numeric.
EarliestOffending ==
    CHOOSE i \in 1..Len(req) :
        /\ Absent(i) \/ NonNumeric(i)
        /\ \A j \in 1..(i - 1) : ~(Absent(j) \/ NonNumeric(j))

\* C21: against a document that has Valute, when some requested codes are
\* missing or have a Value that is no number, get_currencies raises for the
\* earliest such code of the request, KeyError naming it if it is missing and
\* TypeError naming it if its Value is no number, has looked at no code after
\* it, and returns no mapping.
C21_EarliestOffendingStopsFetch ==
    ( /\ FetchReturned /\ FeedGaveValute
      /\ \E i \in 1..Len(req) : Absent(i) \/ NonNumeric(i) ) =>
        /\ fetch.raised
        /\ fetch.result = EmptyMap
        /\ fetch.exc.code = req[EarliestOffending]
        /\ fetch.exc.type = IF Absent(EarliestOffending) THEN "KeyError" ELSE "TypeError"
        /\ fetch.inspected = EarliestOffending

---------------------------------------------------------------------------
(* The file app.log across calls of get_currencies.                        *)

\* Mutant of FileAppend: the file is opened anew for every call.
FileAppend_truncate(log, records) == records

\* logging.FileHandler("app.log") of line 25 opens the file for appending:
\* every record emitted through file_log goes to the end of the file.
FileAppend(log, records) == log \o records

\* What app.log may hold when the process starts: nothing, or a record left
\* by an earlier run.
PriorLogs == { <<>>, << OwnRec("INFO", "done") >> }

InitLog ==
    /\ currencies = InitialCurrencies
    /\ prev = InitialCurrencies
    /\ path = ""
    /\ resp = NoResponse
    /\ req = <<>>
    /\ fetch = NotCalled
    /\ rows = <<>>
    /\ stale = FALSE
    /\ escaped = FALSE
    /\ status = 0
    /\ phase = "idle"
    /\ op = GetCurrenciesOp
    /\ handle = FileLog
    /\ init_args = NoArgs
    /\ made = NotMade
    /\ value_per_unit = [i \in 1..NumCurrencies |-> Unset]
    /\ query = NoQuery
    /\ now = 0
    /\ update_time = NoTime
    /\ last_good = NoTime
    /\ app_log \in PriorLogs

\* One call of the decorated get_currencies with its default handle.
LoggedCall ==
    /\ Len(app_log) < MaxLogLen
    /\ \E codes \in CallLists, r \in WrapResponses :
          /\ resp' = r
          /\ req' = codes
          /\ fetch' = get_currencies(codes, r)
          /\ app_log' = FileAppend(app_log, fetch'.log)
          /\ phase' = "returned"
    /\ UNCHANGED <<currencies, prev, path, rows, stale, escaped, status, op, handle,
                   init_args, made, value_per_unit, query, now, update_time, last_good>>

NextLog == LoggedCall

SpecLog == InitLog /\ [][NextLog]_vars

---------------------------------------------------------------------------
(* Properties of the log, under SpecLog.                                   *)

\* The records of the sequence L that are of level ERROR.
Errors(L) == { i \in 1..Len(L) : L[i].level = "ERROR" }

\* C22: a call of the decorated get_currencies leaves every record that was
\* in app.log where it was and appends its own after them: first the
\* wrapper's INFO start record, last the wrapper's INFO completion record if
\* the call returns and the wrapper's ERROR record of the failure if it
\* raises, and the records of the function body, at least one, between the
\* two; a call that returns appends no ERROR record and a call that raises
\* appends at least one.
C22_CallRecordsBracketed ==
    [][ LET L == fetch'.log
            n == Len(L)
        IN  /\ app_log' = app_log \o L
            /\ n >= 3
            /\ L[1] = Emit(FileLog, "INFO", "start", NoExc)
            /\ L[n] = IF fetch'.raised
                      THEN Emit(FileLog, "ERROR", "error", fetch'.exc)
                      ELSE Emit(FileLog, "INFO", "done", NoExc)
            /\ \A i \in 2..(n - 1) : L[i].src = "get_currencies"
            /\ \A i \in 1..n : L[i].to = "app.log"
            /\ ~fetch'.raised => Errors(L) = {}
            /\ fetch'.raised => Errors(L) # {}
      ]_vars

\* A call that raised KeyError for a missing code, after an earlier call had
\* left its records in the file.
C22_Witness ==
    /\ phase = "returned" /\ fetch.raised /\ fetch.exc.type = "KeyError"
    /\ Len(app_log) > Len(fetch.log) + 1
    /\ SubSeq(app_log, Len(app_log) - Len(fetch.log) + 1, Len(app_log)) = fetch.log
    /\ fetch.log[Len(fetch.log)].src = "inner"
    /\ fetch.log[Len(fetch.log)].level = "ERROR"

=============================================================================
